---- MODULE Spec2Model ----
(***************************************************************************)
(* Qryo browser client: endpoint resolution and the response preview, the  *)
(* health probe of the demo page, job submission and the job list of the   *)
(* static job page, and the status checks of the pages.                    *)
(*                                                                         *)
(* Texts (JavaScript strings) are sequences of one-character strings, so   *)
(* that trimming, slicing, parsing and formatting are computed and not     *)
(* assumed.  The JSON dialect of the model is JSON restricted to null,     *)
(* true, false, non-negative integers, strings without escapes, arrays     *)
(* and objects; the characters - . e E \ are outside the model's alphabet. *)
(***************************************************************************)
EXTENDS Integers, Sequences, FiniteSets, TLC

VARIABLES
    envBase,        \* process.env.NEXT_PUBLIC_API_BASE_URL
    resolved,       \* value of the apiBase memo once computed
    loading,        \* Home: useState(false)
    result,         \* Home: useState<ApiResult | null>(null)
    demo,           \* position of the running runDemo() call
    page,           \* which script the job page runs
    clicks,         \* number of submitJob() calls so far
    resultEl,       \* #result textContent
    jobsEl,         \* #jobs innerHTML
    reqs,           \* every request issued so far, in order, with its progress
    previewText,    \* safePreview: the argument text
    previewMax,     \* safePreview: the argument max
    previewOut,     \* safePreview: the value returned, once it has returned
    statusEl,       \* #api-status: innerText and classList
    homeStatus,     \* HomePage: useState<string>("loading...")
    homeError,      \* HomePage: useState<string | null>(null)
    uncaught        \* rejections that reached no handler of their chain

resolveVars == <<envBase, resolved>>
probeVars == <<loading, result, demo>>
pageVars == <<page, clicks, resultEl, jobsEl>>
previewVars == <<previewText, previewMax, previewOut>>
statusVars == <<statusEl, homeStatus, homeError>>
vars == <<envBase, resolved, loading, result, demo, page, clicks, resultEl,
          jobsEl, reqs, previewText, previewMax, previewOut, statusEl,
          homeStatus, homeError, uncaught>>

(***************************************************************************)
(* Bounds of the model.                                                    *)
(***************************************************************************)
MaxLen == 4         \* longest configured base URL that is enumerated
MaxSubmits == 2     \* submit clicks per page load
MaxProbes == 1      \* "Run Demo Call" clicks per page load
MaxCut == 3         \* largest max given to safePreview, and -MaxCut the least

(***************************************************************************)
(* Texts.                                                                  *)
(***************************************************************************)
IsWs(c) == c \in {" ", "\n", "\t", "\r"}

RECURSIVE TrimStart(_)
TrimStart(t) ==
    IF t # <<>> /\ IsWs(Head(t)) THEN TrimStart(Tail(t)) ELSE t

RECURSIVE TrimEnd(_)
TrimEnd(t) ==
    IF t # <<>> /\ IsWs(t[Len(t)]) THEN TrimEnd(SubSeq(t, 1, Len(t) - 1)) ELSE t

\* String.prototype.trim
Trim(t) == TrimEnd(TrimStart(t))

\* String.prototype.slice(0, n): a negative n counts from the end of the text
Slice(t, n) ==
    LET end == IF n < 0 THEN (IF Len(t) + n > 0 THEN Len(t) + n ELSE 0)
               ELSE IF n < Len(t) THEN n ELSE Len(t)
    IN  SubSeq(t, 1, end)

\* s.replace(/\/+$/, ""): the run of slashes that ends the text is removed
RECURSIVE StripTrailingSlashes(_)
StripTrailingSlashes(t) ==
    IF t # <<>> /\ t[Len(t)] = "/"
    THEN StripTrailingSlashes(SubSeq(t, 1, Len(t) - 1))
    ELSE t

EndsWith(t, suffix) ==
    /\ Len(suffix) <= Len(t)
    /\ SubSeq(t, Len(t) - Len(suffix) + 1, Len(t)) = suffix

\* An optional text: an unset environment variable is [set |-> FALSE].
Unset == [set |-> FALSE, v |-> <<>>]
Some(t) == [set |-> TRUE, v |-> t]

DefaultHost ==
    <<"h","t","t","p","s",":","/","/","q","r","y","o","-","b","a","c","k",
      "e","n","d",".","o","n","r","e","n","d","e","r",".","c","o","m">>

(***************************************************************************)
(* part_001: the demo page.                                                *)
(***************************************************************************)
\* apiBase with replace(/\/$/, ""): one trailing slash removed
apiBaseOneSlash(v) ==
    IF v.set /\ v.v # <<>> /\ Trim(v.v) # <<>>
    THEN LET t == Trim(v.v)
         IN  IF t[Len(t)] = "/" THEN SubSeq(t, 1, Len(t) - 1) ELSE t
    ELSE DefaultHost

\* useMemo body: (v && v.trim()) ? v.trim().replace(/\/+$/, "") : default
apiBase(v) ==
    IF v.set /\ v.v # <<>> /\ Trim(v.v) # <<>>
    THEN StripTrailingSlashes(Trim(v.v))
    ELSE DefaultHost

PreviewMax == 800

\* the single character U+2026 (horizontal ellipsis)
Ellipsis == "U+2026"

\* safePreview cutting the text as it came, not the trimmed text
safePreviewUntrimmed(text, max) ==
    LET trimmed == Trim(text)
    IN  IF Len(trimmed) > max THEN Slice(text, max) \o <<Ellipsis>> ELSE trimmed

\* safePreview(text, max)
safePreview(text, max) ==
    LET trimmed == Trim(text)
    IN  IF Len(trimmed) > max THEN Slice(trimmed, max) \o <<Ellipsis>> ELSE trimmed

(***************************************************************************)
(* JSON values, JSON.parse and JSON.stringify.                             *)
(***************************************************************************)
JNull == [kind |-> "null"]
JBool(b) == [kind |-> "bool", b |-> b]
JNum(n) == [kind |-> "num", n |-> n]
JStr(s) == [kind |-> "str", s |-> s]
JArr(items) == [kind |-> "arr", items |-> items]
\* members: the object's own properties in insertion order, <<key, value>>
JObj(members) == [kind |-> "obj", members |-> members]
\* the JavaScript value undefined (never the result of JSON.parse)
Undefined == [kind |-> "undefined"]

Digits == <<"0", "1", "2", "3", "4", "5", "6", "7", "8", "9">>
IsDigit(c) == \E d \in 1..10 : Digits[d] = c
DigitVal(c) == (CHOOSE d \in 1..10 : Digits[d] = c) - 1

\* result of a parsing step: the value and the position after it
Fail == [ok |-> FALSE, val |-> JNull, pos |-> 0]
Ok(v, p) == [ok |-> TRUE, val |-> v, pos |-> p]

At(t, i) == IF i >= 1 /\ i <= Len(t) THEN t[i] ELSE "EOF"

RECURSIVE SkipWs(_, _)
SkipWs(t, i) == IF IsWs(At(t, i)) THEN SkipWs(t, i + 1) ELSE i

Literal(t, i, word) ==
    /\ i + Len(word) - 1 <= Len(t)
    /\ SubSeq(t, i, i + Len(word) - 1) = word

\* digits of a number that does not start with 0: value so far and position
RECURSIVE ParseDigits(_, _, _)
ParseDigits(t, i, acc) ==
    IF IsDigit(At(t, i))
    THEN ParseDigits(t, i + 1, acc * 10 + DigitVal(t[i]))
    ELSE Ok(JNum(acc), i)

\* t[i] is the character after an opening quote
RECURSIVE ParseChars(_, _, _)
ParseChars(t, i, acc) ==
    LET c == At(t, i)
    IN  IF c = "\"" THEN Ok(JStr(acc), i + 1)
        ELSE IF c \in {"EOF", "\n", "\t", "\r", "\\"} THEN Fail
        ELSE ParseChars(t, i + 1, Append(acc, c))

\* own property `key` set to v: a repeated key keeps its place, takes the
\* new value
RECURSIVE PutMember(_, _, _)
PutMember(members, key, v) ==
    IF members = <<>> THEN << <<key, v>> >>
    ELSE IF Head(members)[1] = key THEN << <<key, v>> >> \o Tail(members)
    ELSE <<Head(members)>> \o PutMember(Tail(members), key, v)

RECURSIVE ParseValue(_, _)
RECURSIVE ParseElements(_, _, _)
RECURSIVE ParseMembers(_, _, _)

ParseValue(t, i) ==
    LET j == SkipWs(t, i)
        c == At(t, j)
    IN  CASE c = "n" -> IF Literal(t, j, <<"n","u","l","l">>)
                        THEN Ok(JNull, j + 4) ELSE Fail
          [] c = "t" -> IF Literal(t, j, <<"t","r","u","e">>)
                        THEN Ok(JBool(TRUE), j + 4) ELSE Fail
          [] c = "f" -> IF Literal(t, j, <<"f","a","l","s","e">>)
                        THEN Ok(JBool(FALSE), j + 5) ELSE Fail
          [] c = "0" -> Ok(JNum(0), j + 1)
          [] IsDigit(c) /\ c # "0" -> ParseDigits(t, j, 0)
          [] c = "\"" -> ParseChars(t, j + 1, <<>>)
          [] c = "[" -> IF At(t, SkipWs(t, j + 1)) = "]"
                        THEN Ok(JArr(<<>>), SkipWs(t, j + 1) + 1)
                        ELSE ParseElements(t, j + 1, <<>>)
          [] c = "{" -> IF At(t, SkipWs(t, j + 1)) = "}"
                        THEN Ok(JObj(<<>>), SkipWs(t, j + 1) + 1)
                        ELSE ParseMembers(t, j + 1, <<>>)
          [] OTHER -> Fail

ParseElements(t, i, acc) ==
    LET r == ParseValue(t, i)
        k == SkipWs(t, r.pos)
    IN  IF ~r.ok THEN Fail
        ELSE IF At(t, k) = "," THEN ParseElements(t, k + 1, Append(acc, r.val))
        ELSE IF At(t, k) = "]" THEN Ok(JArr(Append(acc, r.val)), k + 1)
        ELSE Fail

ParseMembers(t, i, acc) ==
    LET j == SkipWs(t, i)
        key == IF At(t, j) = "\"" THEN ParseChars(t, j + 1, <<>>) ELSE Fail
        colon == SkipWs(t, key.pos)
        r == IF key.ok /\ At(t, colon) = ":" THEN ParseValue(t, colon + 1) ELSE Fail
        k == SkipWs(t, r.pos)
    IN  IF ~r.ok THEN Fail
        ELSE IF At(t, k) = ","
             THEN ParseMembers(t, k + 1, PutMember(acc, key.val.s, r.val))
        ELSE IF At(t, k) = "}"
             THEN Ok(JObj(PutMember(acc, key.val.s, r.val)), k + 1)
        ELSE Fail

\* JSON.parse(t): ok = FALSE stands for the SyntaxError it throws
JSONParse(t) ==
    LET r == ParseValue(t, 1)
    IN  IF r.ok /\ SkipWs(t, r.pos) > Len(t)
        THEN [ok |-> TRUE, val |-> r.val]
        ELSE [ok |-> FALSE, val |-> JNull]

RECURSIVE NumText(_)
NumText(n) ==
    IF n < 10 THEN <<Digits[n + 1]>>
    ELSE NumText(n \div 10) \o <<Digits[(n % 10) + 1]>>

Quoted(s) == <<"\"">> \o s \o <<"\"">>

RECURSIVE Spaces(_)
Spaces(n) == IF n = 0 THEN <<>> ELSE <<" ">> \o Spaces(n - 1)

\* line break and indentation before an item at nesting depth `level`;
\* nothing when gap = 0
Break(gap, level) ==
    IF gap = 0 THEN <<>> ELSE <<"\n">> \o Spaces(gap * level)

RECURSIVE Stringify(_, _, _)
RECURSIVE JoinItems(_, _, _)
RECURSIVE JoinMembers(_, _, _)

\* JSON.stringify(v, null, gap) for a value at nesting depth `level`
Stringify(v, gap, level) ==
    CASE v.kind = "null" -> <<"n","u","l","l">>
      [] v.kind = "bool" -> IF v.b THEN <<"t","r","u","e">>
                            ELSE <<"f","a","l","s","e">>
      [] v.kind = "num" -> NumText(v.n)
      [] v.kind = "str" -> Quoted(v.s)
      [] v.kind = "arr" ->
            IF v.items = <<>> THEN <<"[", "]">>
            ELSE <<"[">> \o JoinItems(v.items, gap, level + 1)
                 \o Break(gap, level) \o <<"]">>
      [] v.kind = "obj" ->
            IF v.members = <<>> THEN <<"{", "}">>
            ELSE <<"{">> \o JoinMembers(v.members, gap, level + 1)
                 \o Break(gap, level) \o <<"}">>

JoinItems(items, gap, level) ==
    Break(gap, level) \o Stringify(Head(items), gap, level)
    \o (IF Tail(items) = <<>> THEN <<>>
        ELSE <<",">> \o JoinItems(Tail(items), gap, level))

JoinMembers(members, gap, level) ==
    Break(gap, level) \o Quoted(Head(members)[1]) \o <<":">>
    \o (IF gap = 0 THEN <<>> ELSE <<" ">>)
    \o Stringify(Head(members)[2], gap, level)
    \o (IF Tail(members) = <<>> THEN <<>>
        ELSE <<",">> \o JoinMembers(Tail(members), gap, level))

(***************************************************************************)
(* The network.  A request is answered in two steps, as fetch() is: first  *)
(* the promise of fetch settles (a response with a status, or a rejection) *)
(* and then the promise of reading the body (res.text(), res.json()).      *)
(***************************************************************************)
\* op: the operation the request belongs to; by: what started the operation
\* (a submit click's number, the request whose handler called it, 0 for the
\* page itself)
NewReq(op, by, method, url, key, body) ==
    [op |-> op, by |-> by, method |-> method, url |-> url, key |-> key,
     body |-> body,
     phase |-> "sent", status |-> 0, neterr |-> FALSE, err |-> Unset,
     outcome |-> JNull]

\* request i with its promise (of fetch, or of the body) rejected with e
Rejected(i, e) == [reqs EXCEPT ![i].neterr = TRUE, ![i].err = e]

InFlight(r) == r.phase \in {"sent", "body"}

\* HTTP statuses a response may carry
Statuses == {200, 299, 300, 404}

\* Response.ok
ResOk(status) == status >= 200 /\ status <= 299

FailedToFetch == <<"F","a","i","l","e","d"," ","t","o"," ","f","e","t","c","h">>
FetchFailed == <<"F","e","t","c","h"," ","f","a","i","l","e","d">>

\* what a rejected promise carries: an Error with a message, an Error whose
\* message is empty, a value without a message
Errors == {Some(FailedToFetch), Some(<<>>), Unset}

HealthPath == <<"/","h","e","a","l","t","h">>
RootPath == <<"/">>

LongText == [i \in 1..(PreviewMax + 2) |-> "a"]

\* response bodies of the probed endpoints
ProbeBodies ==
    { <<>>,
      <<" ","o","k","\n">>,
      <<"{","\"","s","t","a","t","u","s","\"",":","\"","o","k","\"","}">>,
      LongText }

\* configured base URLs of the demo page
ProbeEnvs == {Unset, Some(<<"h",":","/","/","x","/">>)}

(***************************************************************************)
(* part_001: tryFetch and runDemo.                                         *)
(***************************************************************************)
NoResult == JNull

ProbeReqs(p) == {i \in DOMAIN reqs : reqs[i].op = p}
NumProbes == Cardinality({reqs[i].op : i \in DOMAIN reqs})

\* tryFetch, lines 44-50: the request for `path`
tryFetchRequest(op, path) ==
    NewReq(op, 0, "GET", resolved.v \o path, Unset, Unset)

\* tryFetch, lines 53-58
tryFetchReturn(r, text) ==
    [ok |-> ResOk(r.status), urlTried |-> r.url, status |-> r.status,
     bodyPreview |-> safePreview(text, PreviewMax)]

\* tryFetch's catch without the default message
tryFetchCatchRaw(r, e) ==
    [ok |-> FALSE, urlTried |-> r.url, error |-> e.v]

\* tryFetch, lines 59-64: e?.message || "Fetch failed"
tryFetchCatch(r, e) ==
    [ok |-> FALSE, urlTried |-> r.url,
     error |-> IF e.set /\ e.v # <<>> THEN e.v ELSE FetchFailed]

\* runDemo issuing both candidates at once
runDemoBoth ==
    /\ page = "demo"
    /\ ~loading
    /\ demo = "idle"
    /\ NumProbes < MaxProbes
    /\ loading' = TRUE
    /\ result' = NoResult
    /\ reqs' = reqs \o <<tryFetchRequest(NumProbes + 1, HealthPath),
                         tryFetchRequest(NumProbes + 1, RootPath)>>
    /\ demo' = "first"
    /\ UNCHANGED <<previewVars, statusVars, uncaught, resolveVars, pageVars>>

\* runDemo, lines 69-73
runDemo ==
    /\ page = "demo"
    /\ ~loading
    /\ demo = "idle"
    /\ NumProbes < MaxProbes
    /\ loading' = TRUE
    /\ result' = NoResult
    /\ reqs' = Append(reqs, tryFetchRequest(NumProbes + 1, HealthPath))
    /\ demo' = "first"
    /\ UNCHANGED <<previewVars, statusVars, uncaught, resolveVars, pageVars>>

\* runDemo without the early return of lines 74-78
runDemoResumeNoStop(i, settled, res) ==
    LET done == [settled EXCEPT ![i].phase = "done", ![i].outcome = res]
    IN  IF demo = "first"
        THEN /\ reqs' = Append(done, tryFetchRequest(reqs[i].op, RootPath))
             /\ demo' = "fallback"
             /\ UNCHANGED <<loading, result>>
        ELSE /\ reqs' = done
             /\ result' = res
             /\ loading' = FALSE
             /\ demo' = "idle"

\* runDemo showing the first candidate's result when the fallback fails too
runDemoResumeFirst(i, settled, res) ==
    LET done == [settled EXCEPT ![i].phase = "done", ![i].outcome = res]
        first == CHOOSE h \in DOMAIN reqs : reqs[h].op = reqs[i].op
    IN  IF demo = "first" /\ ~res.ok
        THEN /\ reqs' = Append(done, tryFetchRequest(reqs[i].op, RootPath))
             /\ demo' = "fallback"
             /\ UNCHANGED <<loading, result>>
        ELSE /\ reqs' = done
             /\ result' = IF res.ok THEN res ELSE done[first].outcome
             /\ loading' = FALSE
             /\ demo' = "idle"

\* runDemo without setLoading(false) in the early return of lines 74-78
runDemoResumeKeepsLoading(i, settled, res) ==
    LET done == [settled EXCEPT ![i].phase = "done", ![i].outcome = res]
    IN  IF demo = "first" /\ ~res.ok
        THEN /\ reqs' = Append(done, tryFetchRequest(reqs[i].op, RootPath))
             /\ demo' = "fallback"
             /\ UNCHANGED <<loading, result>>
        ELSE /\ reqs' = done
             /\ result' = res
             /\ loading' = (demo = "first")
             /\ demo' = "idle"

\* runDemo, lines 73-82: tryFetch for request i has returned res
runDemoResume(i, settled, res) ==
    LET done == [settled EXCEPT ![i].phase = "done", ![i].outcome = res]
    IN  IF demo = "first" /\ ~res.ok
        THEN /\ reqs' = Append(done, tryFetchRequest(reqs[i].op, RootPath))
             /\ demo' = "fallback"
             /\ UNCHANGED <<loading, result>>
        ELSE /\ reqs' = done
             /\ result' = res
             /\ loading' = FALSE
             /\ demo' = "idle"

\* await fetch(url) rejects
tryFetchRejected(i, e) ==
    /\ page = "demo"
    /\ reqs[i].phase = "sent"
    /\ runDemoResume(i, Rejected(i, e), tryFetchCatch(reqs[i], e))
    /\ UNCHANGED <<previewVars, statusVars, uncaught, resolveVars, pageVars>>

\* runDemo ending the loading state when the response arrives, before the
\* body has been read
tryFetchRespondedEarly(i, s) ==
    /\ page = "demo"
    /\ reqs[i].phase = "sent"
    /\ reqs' = [reqs EXCEPT ![i].phase = "body", ![i].status = s]
    /\ loading' = FALSE
    /\ UNCHANGED <<previewVars, statusVars, uncaught, resolveVars, result, demo,
                   pageVars>>

\* await fetch(url) resolves with a response of status s
tryFetchResponded(i, s) ==
    /\ page = "demo"
    /\ reqs[i].phase = "sent"
    /\ reqs' = [reqs EXCEPT ![i].phase = "body", ![i].status = s]
    /\ UNCHANGED <<previewVars, statusVars, uncaught, resolveVars, probeVars,
                   pageVars>>

\* await res.text() resolves
tryFetchText(i, text) ==
    /\ page = "demo"
    /\ reqs[i].phase = "body"
    /\ runDemoResume(i, reqs, tryFetchReturn(reqs[i], text))
    /\ UNCHANGED <<previewVars, statusVars, uncaught, resolveVars, pageVars>>

\* await res.text() rejects
tryFetchTextFailed(i, e) ==
    /\ page = "demo"
    /\ reqs[i].phase = "body"
    /\ runDemoResume(i, Rejected(i, e), tryFetchCatch(reqs[i], e))
    /\ UNCHANGED <<previewVars, statusVars, uncaught, resolveVars, pageVars>>

(***************************************************************************)
(* Values of the variables of a page that is not open.                     *)
(***************************************************************************)
NoProbePage == loading = FALSE /\ result = NoResult /\ demo = "idle"
NoJobPage ==
    /\ page = "demo" /\ clicks = 0 /\ resultEl = <<>>
    /\ jobsEl = [view |-> "none"]

\* safePreview has not been called
NoPreview == previewText = <<>> /\ previewMax = 0 /\ previewOut = Unset

\* #api-status before a script has written it, and HomePage not mounted
NoStatusEl == [text |-> <<>>, classes |-> {}]
NoStatusPage ==
    statusEl = NoStatusEl /\ homeStatus = <<>> /\ homeError = Unset

(***************************************************************************)
(* Endpoint resolution on its own: every configured value up to MaxLen.    *)
(***************************************************************************)
EnvChars == {"a", "/", " "}
EnvTexts == UNION {[1..n -> EnvChars] : n \in 0..MaxLen}

InitResolve ==
    /\ envBase \in {Unset} \cup {Some(t) : t \in EnvTexts}
    /\ resolved = Unset
    /\ reqs = <<>>
    /\ NoProbePage
    /\ NoJobPage
    /\ NoPreview
    /\ NoStatusPage
    /\ uncaught = 0

\* Home's first render evaluates the memo
Render ==
    /\ ~resolved.set
    /\ resolved' = Some(apiBase(envBase))
    /\ UNCHANGED <<envBase, probeVars, pageVars, reqs, previewVars, statusVars,
                   uncaught>>

SpecResolve == InitResolve /\ [][Render]_vars

(***************************************************************************)
(* safePreview on its own: every text up to MaxLen, every max from -MaxCut *)
(* to MaxCut.                                                              *)
(***************************************************************************)
PreviewChars == {"a", "b", " "}
PreviewTexts == UNION {[1..n -> PreviewChars] : n \in 0..MaxLen}

InitPreview ==
    /\ previewText \in PreviewTexts
    /\ previewMax \in (0 - MaxCut)..MaxCut
    /\ previewOut = Unset
    /\ envBase = Unset
    /\ resolved = Unset
    /\ reqs = <<>>
    /\ NoProbePage
    /\ NoJobPage
    /\ NoStatusPage
    /\ uncaught = 0

\* a call safePreview(previewText, previewMax) returns
Preview ==
    /\ ~previewOut.set
    /\ previewOut' = Some(safePreview(previewText, previewMax))
    /\ UNCHANGED <<previewText, previewMax, resolveVars, probeVars, pageVars,
                   reqs, statusVars, uncaught>>

SpecPreview == InitPreview /\ [][Preview]_vars

(***************************************************************************)
(* The demo page.                                                          *)
(***************************************************************************)
InitProbe ==
    /\ envBase \in ProbeEnvs
    /\ resolved = Some(apiBase(envBase))
    /\ loading = FALSE
    /\ result = NoResult
    /\ demo = "idle"
    /\ reqs = <<>>
    /\ NoJobPage
    /\ NoPreview
    /\ NoStatusPage
    /\ uncaught = 0

NextProbe ==
    \/ runDemo
    \/ \E i \in DOMAIN reqs, e \in Errors : tryFetchRejected(i, e)
    \/ \E i \in DOMAIN reqs, s \in Statuses : tryFetchResponded(i, s)
    \/ \E i \in DOMAIN reqs, text \in ProbeBodies : tryFetchText(i, text)
    \/ \E i \in DOMAIN reqs, e \in Errors : tryFetchTextFailed(i, e)

SpecProbe == InitProbe /\ [][NextProbe]_vars

(***************************************************************************)
(* part_000 and lib/api.ts lines 10-61: the job page.  Both scripts have   *)
(* submitJob; only part_000 has the job list (loadJobs and #jobs).  page   *)
(* says which of the two scripts the page runs: "jobs" for part_000,       *)
(* "submit" for the script in lib/api.ts.  The status check at the top of  *)
(* the two scripts is modelled further down, on the page "submit".         *)
(***************************************************************************)
API_BASE ==
    <<"h","t","t","p","s",":","/","/","q","r","y","o","-","b","a","c","k",
      "e","n","d",".","o","n","r","e","n","d","e","r",".","c","o","m">>

SubmitJobPath == <<"/","s","u","b","m","i","t","-","j","o","b">>
JobsPath == <<"/","j","o","b","s">>

Submitting == <<"S","u","b","m","i","t","t","i","n","g",".",".",".">>
InvalidPayload == <<"I","n","v","a","l","i","d"," ","J","S","O","N"," ","p","a","y","l","o","a","d">>
SubmissionFailed == <<"S","u","b","m","i","s","s","i","o","n"," ","f","a","i","l","e","d">>

\* #jobs: "Loading jobs...", "<p>No jobs found.</p>", "Failed to load jobs."
\* and the job records, one row per <div class="job">
\* a page without #jobs
NoJobsEl == [view |-> "none"]
LoadingJobs == [view |-> "loading"]
NoJobsFound == [view |-> "empty"]
FailedToLoad == [view |-> "failed"]
JobRows(rows) == [view |-> "list", rows |-> rows]

\* values of the form fields
ApiKeys == { <<" ","k","1"," ">> }
JobTypes == { <<"s">> }
Payloads ==
    { <<" ","{","\"","n","\"",":"," ","[","1",",","2","]","}","\n">>,
      <<"[","1",",","]">>,
      <<"{","n","o","t">>,
      <<"{","\"","n","\"",":"," ","0","1","}">>,
      <<>> }

\* response bodies of POST /submit-job
SubmitBodies ==
    { <<"{","\"","i","d","\"",":","7",","," ","\"","o","k","\"",":","t","r","u","e","}">>,
      <<"{","\"","d","e","t","a","i","l","\"",":","\"","n","o","\"","}">>,
      <<"<","h",">">>,
      <<>> }

\* property names of the wire format
IdKey == <<"i","d">>
JobTypeKey == <<"j","o","b","_","t","y","p","e">>
StatusKey == <<"s","t","a","t","u","s">>
CreatedAtKey == <<"c","r","e","a","t","e","d","_","a","t">>
PayloadKey == <<"p","a","y","l","o","a","d">>

Job(id, type, status, created) ==
    JObj(<< <<IdKey, id>>, <<JobTypeKey, JStr(type)>>,
            <<StatusKey, JStr(status)>>, <<CreatedAtKey, JStr(created)>> >>)

\* response bodies of GET /jobs
JobsBodies ==
    { <<"[", "]">>,
      <<" ", "[", "\n", "]", "\n">>,
      Stringify(JArr(<<Job(JNum(2), <<"s">>, <<"r","u","n">>, <<"t","2">>),
                       Job(JNum(1), <<"q">>, <<"o","k">>, <<"t","1">>),
                       Job(JNum(2), <<"s">>, <<"r","u","n">>, <<"t","2">>)>>),
                0, 0),
      <<"[","{","\"","i","d","\"",":","\"","b","\"","}",",","7","]">>,
      <<"[","n","u","l","l","]">>,
      <<"{","\"","d","e","t","a","i","l","\"",":","\"","n","o","\"","}">>,
      <<"n","u","l","l">>,
      <<"\"","a","b","\"">>,
      <<"<","h",">">> }

\* response bodies of GET /
StatusBodies ==
    { <<"{","\"","s","t","a","t","u","s","\"",":","\"","u","p","\"","}">>,
      <<"{","}">>,
      <<"n","u","l","l">>,
      <<"<","h",">">> }

\* status codes of the responses to the job page
JobStatuses == {200, 500}

\* JSON.parse of the texts above, computed once
ParseMemo ==
    [t \in Payloads \cup SubmitBodies \cup JobsBodies \cup StatusBodies |->
        JSONParse(t)]

\* JSON.parse(t)
ParseOf(t) == IF t \in DOMAIN ParseMemo THEN ParseMemo[t] ELSE JSONParse(t)

(***************************************************************************)
(* JavaScript on parsed values: property access, truthiness, String(v).    *)
(***************************************************************************)
RECURSIVE Lookup(_, _)
Lookup(members, key) ==
    IF members = <<>> THEN Undefined
    ELSE IF Head(members)[1] = key THEN Head(members)[2]
    ELSE Lookup(Tail(members), key)

LengthKey == <<"l","e","n","g","t","h">>

\* v[key] for v other than null and undefined, key not a method's name
GetProp(v, key) ==
    CASE v.kind = "obj" -> Lookup(v.members, key)
      [] v.kind = "arr" /\ key = LengthKey -> JNum(Len(v.items))
      [] v.kind = "str" /\ key = LengthKey -> JNum(Len(v.s))
      [] OTHER -> Undefined

Truthy(v) ==
    CASE v.kind \in {"undefined", "null"} -> FALSE
      [] v.kind = "bool" -> v.b
      [] v.kind = "num" -> v.n # 0
      [] v.kind = "str" -> v.s # <<>>
      [] OTHER -> TRUE

RECURSIVE DisplayText(_)
RECURSIVE JoinDisplay(_)

\* String(v), what `${v}` puts into a template literal
DisplayText(v) ==
    CASE v.kind = "undefined" -> <<"u","n","d","e","f","i","n","e","d">>
      [] v.kind = "null" -> <<"n","u","l","l">>
      [] v.kind = "bool" -> IF v.b THEN <<"t","r","u","e">>
                            ELSE <<"f","a","l","s","e">>
      [] v.kind = "num" -> NumText(v.n)
      [] v.kind = "str" -> v.s
      [] v.kind = "arr" -> JoinDisplay(v.items)
      [] v.kind = "obj" -> <<"[","o","b","j","e","c","t"," ","O","b","j","e","c","t","]">>

\* Array.prototype.join(","): null and undefined elements give ""
JoinDisplay(items) ==
    IF items = <<>> THEN <<>>
    ELSE (IF Head(items).kind \in {"null", "undefined"} THEN <<>>
          ELSE DisplayText(Head(items)))
         \o (IF Tail(items) = <<>> THEN <<>>
             ELSE <<",">> \o JoinDisplay(Tail(items)))

(***************************************************************************)
(* part_000: submitJob and loadJobs.                                       *)
(***************************************************************************)
\* what a promise chain's catch receives when JSON parsing or a callback
\* threw
SyntaxErr == Some(<<"U","n","e","x","p","e","c","t","e","d"," ","t","o","k","e","n">>)
TypeErr == Some(<<"n","o","t"," ","a"," ","f","u","n","c","t","i","o","n">>)

\* loadJobs, lines 58-60: the request
loadJobsRequest(by) ==
    NewReq("jobs", by, "GET", API_BASE \o JobsPath, Unset, Unset)

\* submitJob, lines 35-45: the request
submitJobRequest(n, apiKey, jobType, payload) ==
    NewReq("submit", n, "POST", API_BASE \o SubmitJobPath, Some(apiKey),
           Some(Stringify(JObj(<< <<JobTypeKey, JStr(jobType)>>,
                                  <<PayloadKey, payload>> >>), 0, 0)))

\* submitJob without the return of line 32: the request goes out with
\* payload undefined, which JSON.stringify leaves out
submitJobNoReturn(k, t, p) ==
    LET apiKey == Trim(k)
        parsed == ParseOf(p)
        n == clicks + 1
        body == IF parsed.ok
                THEN JObj(<< <<JobTypeKey, JStr(t)>>, <<PayloadKey, parsed.val>> >>)
                ELSE JObj(<< <<JobTypeKey, JStr(t)>> >>)
    IN  /\ page \in {"jobs", "submit"}
        /\ n <= MaxSubmits
        /\ clicks' = n
        /\ resultEl' = IF parsed.ok THEN Submitting ELSE InvalidPayload
        /\ reqs' = Append(reqs, NewReq("submit", n, "POST", API_BASE \o SubmitJobPath,
                                       Some(apiKey), Some(Stringify(body, 0, 0))))
        /\ UNCHANGED <<previewVars, statusVars, uncaught, resolveVars, probeVars,
                       page, jobsEl>>

\* submitJob, lines 20-45 (lib/api.ts lines 28-53 are the same statements):
\* a click on submit with k, t and p in the form fields
submitJob(k, t, p) ==
    LET apiKey == Trim(k)
        parsed == ParseOf(p)
        n == clicks + 1
    IN  /\ page \in {"jobs", "submit"}
        /\ n <= MaxSubmits
        /\ clicks' = n
        /\ IF ~parsed.ok
           THEN /\ resultEl' = InvalidPayload
                /\ reqs' = reqs
           ELSE /\ resultEl' = Submitting
                /\ reqs' = Append(reqs, submitJobRequest(n, apiKey, t, parsed.val))
        /\ UNCHANGED <<previewVars, statusVars, uncaught, resolveVars, probeVars,
                       page, jobsEl>>

\* submitJob's callback refreshing the list only after a success status
submitThenIfOk(i, settled, data) ==
    /\ resultEl' = Stringify(data, 2, 0)
    /\ IF ResOk(reqs[i].status)
       THEN jobsEl' = LoadingJobs /\ reqs' = Append(settled, loadJobsRequest(i))
       ELSE reqs' = settled /\ UNCHANGED jobsEl

\* submitJob's callback showing the response only of the submission fired
\* last
submitThenLatest(i, settled, data) ==
    /\ resultEl' = IF reqs[i].by = clicks THEN Stringify(data, 2, 0) ELSE resultEl
    /\ jobsEl' = LoadingJobs
    /\ reqs' = Append(settled, loadJobsRequest(i))

\* part_000 lines 47-50: .then(data => ...) of submitJob
submitThen(i, settled, data) ==
    /\ resultEl' = Stringify(data, 2, 0)
    /\ jobsEl' = LoadingJobs
    /\ reqs' = Append(settled, loadJobsRequest(i))

\* lib/api.ts lines 55-57: .then(data => ...) of submitJob
submitThenLib(i, settled, data) ==
    /\ resultEl' = Stringify(data, 2, 0)
    /\ reqs' = settled
    /\ UNCHANGED jobsEl

\* submitJob's catch showing the error's message
submitCatchMessage(i, settled, e) ==
    /\ resultEl' = (IF e.set /\ e.v # <<>> THEN e.v ELSE SubmissionFailed)
    /\ reqs' = settled
    /\ UNCHANGED jobsEl

\* submitJob's catch refreshing the job list as the callback does
submitCatchRefresh(i, settled, e) ==
    /\ resultEl' = SubmissionFailed
    /\ IF page = "jobs"
       THEN jobsEl' = LoadingJobs /\ reqs' = Append(settled, loadJobsRequest(i))
       ELSE reqs' = settled /\ UNCHANGED jobsEl

\* submitJob's catch sending the request once more
submitCatchRetry(i, settled, e) ==
    /\ resultEl' = SubmissionFailed
    /\ reqs' = Append(settled, [reqs[i] EXCEPT !.phase = "sent", !.status = 0])
    /\ UNCHANGED jobsEl

\* part_000 lines 51-53, lib/api.ts lines 58-60: .catch of submitJob
submitCatch(i, settled, e) ==
    /\ resultEl' = SubmissionFailed
    /\ reqs' = settled
    /\ UNCHANGED jobsEl

\* one <div class="job"> of lines 69-74
jobRow(job) ==
    [id |-> DisplayText(GetProp(job, IdKey)),
     job_type |-> DisplayText(GetProp(job, JobTypeKey)),
     status |-> DisplayText(GetProp(job, StatusKey)),
     created_at |-> DisplayText(GetProp(job, CreatedAtKey))]

\* loadJobs' callback without the test of line 63
loadJobsRenderNoTest(jobs) ==
    IF jobs.kind = "null" THEN [threw |-> TRUE, html |-> JNull]
    ELSE IF jobs.kind # "arr" THEN [threw |-> TRUE, html |-> JNull]
    ELSE IF \E k \in DOMAIN jobs.items : jobs.items[k].kind = "null"
         THEN [threw |-> TRUE, html |-> JNull]
    ELSE [threw |-> FALSE,
          html |-> JobRows([k \in DOMAIN jobs.items |-> jobRow(jobs.items[k])])]

\* loadJobs' callback listing the jobs latest first
loadJobsRenderReversed(jobs) ==
    IF jobs.kind = "null" THEN [threw |-> TRUE, html |-> JNull]
    ELSE IF ~Truthy(GetProp(jobs, LengthKey))
         THEN [threw |-> FALSE, html |-> NoJobsFound]
    ELSE IF jobs.kind # "arr" THEN [threw |-> TRUE, html |-> JNull]
    ELSE IF \E k \in DOMAIN jobs.items : jobs.items[k].kind = "null"
         THEN [threw |-> TRUE, html |-> JNull]
    ELSE [threw |-> FALSE,
          html |-> JobRows([k \in DOMAIN jobs.items |->
                              jobRow(jobs.items[Len(jobs.items) + 1 - k])])]

\* lines 63-75: what the callback assigns to #jobs, or that it threw a
\* TypeError (length of null, jobs.map not a function, a property of null)
loadJobsRender(jobs) ==
    IF jobs.kind = "null" THEN [threw |-> TRUE, html |-> JNull]
    ELSE IF ~Truthy(GetProp(jobs, LengthKey))
         THEN [threw |-> FALSE, html |-> NoJobsFound]
    ELSE IF jobs.kind # "arr" THEN [threw |-> TRUE, html |-> JNull]
    ELSE IF \E k \in DOMAIN jobs.items : jobs.items[k].kind = "null"
         THEN [threw |-> TRUE, html |-> JNull]
    ELSE [threw |-> FALSE,
          html |-> JobRows([k \in DOMAIN jobs.items |-> jobRow(jobs.items[k])])]

\* lines 77-79: .catch of loadJobs
loadJobsCatch(i, settled, e) ==
    /\ jobsEl' = FailedToLoad
    /\ reqs' = settled
    /\ UNCHANGED resultEl

\* loadJobs' callback returning on an empty list without writing to #jobs
loadJobsThenSilent(i, settled, jobs) ==
    IF loadJobsRender(jobs).threw
    THEN loadJobsCatch(i, settled, TypeErr)
    ELSE /\ jobsEl' = IF loadJobsRender(jobs).html = NoJobsFound THEN jobsEl
                      ELSE loadJobsRender(jobs).html
         /\ reqs' = settled
         /\ UNCHANGED resultEl

\* lines 62-76: .then(jobs => ...) of loadJobs; what it throws goes to the
\* catch of the same chain
loadJobsThen(i, settled, jobs) ==
    IF loadJobsRender(jobs).threw
    THEN loadJobsCatch(i, settled, TypeErr)
    ELSE /\ jobsEl' = loadJobsRender(jobs).html
         /\ reqs' = settled
         /\ UNCHANGED resultEl

(***************************************************************************)
(* The status checks: part_000 lines 8-17 and lib/api.ts lines 16-25 (the  *)
(* same statements), frontend/script.js, and HomePage of app/page.tsx      *)
(* with apiGet of lib/api.ts.  page says which one runs: "submit" for the  *)
(* script of lib/api.ts, "status" for frontend/script.js, "home" for       *)
(* HomePage.  The status check of part_000 is the one of lib/api.ts and    *)
(* is modelled there only; it writes #api-status and nothing else does.    *)
(***************************************************************************)
ApiStatus == <<"A","P","I"," ","S","t","a","t","u","s",":"," ">>
Online == <<"O","N","L","I","N","E">>
Offline == <<"O","F","F","L","I","N","E">>

\* "Backend bağlantısı başarısız"
BackendFailed ==
    <<"B","a","c","k","e","n","d"," ","b","a","U+011F","l","a","n","t",
      "U+0131","s","U+0131"," ","b","a","U+015F","a","r","U+0131","s",
      "U+0131","z">>

HomeLoading == <<"l","o","a","d","i","n","g",".",".",".">>

\* new Error("API request failed"), new Error("API error")
ApiRequestFailed == Some(<<"A","P","I"," ","r","e","q","u","e","s","t"," ","f","a","i","l","e","d">>)
ApiError == Some(<<"A","P","I"," ","e","r","r","o","r">>)

\* `${API_BASE}` of lib/api.ts line 1: String(undefined) when it is not set
EnvText(v) == IF v.set THEN v.v ELSE <<"u","n","d","e","f","i","n","e","d">>

\* fetch(`${API_BASE}/`)
statusRequest ==
    NewReq("status", 0, "GET",
           (IF page = "home" THEN EnvText(envBase) ELSE API_BASE) \o RootPath,
           Unset, Unset)

\* statusEl.innerText = t; statusEl.classList.add(c)
Shown(t, c) == [text |-> t, classes |-> statusEl.classes \cup {c}]

\* the .catch of the status check: part_000 lines 14-17, script.js lines
\* 14-17, page.tsx lines 15-18
statusCatch(i, settled, e) ==
    /\ reqs' = settled
    /\ IF page = "home"
       THEN homeError' = Some(BackendFailed) /\ UNCHANGED <<statusEl, homeStatus>>
       ELSE /\ statusEl' = Shown(ApiStatus \o Offline, "fail")
            /\ UNCHANGED <<homeStatus, homeError>>

\* the .then of the status check: part_000 lines 10-13, script.js lines
\* 10-13 (data.status of null throws a TypeError, which goes to the catch
\* of the chain), page.tsx lines 12-14
statusThen(i, settled, data) ==
    IF page = "home"
    THEN /\ homeStatus' = Stringify(data, 0, 0)
         /\ reqs' = settled
         /\ UNCHANGED <<statusEl, homeError>>
    ELSE IF page = "status" /\ data.kind = "null"
    THEN statusCatch(i, settled, TypeErr)
    ELSE /\ statusEl' =
              IF page = "status" /\ Truthy(GetProp(data, StatusKey))
              THEN Shown(ApiStatus \o DisplayText(GetProp(data, StatusKey)), "ok")
              ELSE Shown(ApiStatus \o Online, "ok")
         /\ reqs' = settled
         /\ UNCHANGED <<homeStatus, homeError>>

\* whether the chain of request i throws on a response that is not ok
\* before it reads the body: script.js line 7, apiGet lines 5-7
ThrowsUnlessOk(i) == reqs[i].op = "status" /\ page \in {"status", "home"}

\* what it throws then
NotOkError == IF page = "home" THEN ApiRequestFailed ELSE ApiError

\* the promise chains without their .catch: the rejection reaches no handler
ChainCatchNone(i, settled, e) ==
    /\ uncaught' = uncaught + 1
    /\ reqs' = settled
    /\ UNCHANGED <<resultEl, jobsEl, statusVars>>

\* the promise chain of request i is rejected with e: every chain ends with
\* a .catch
ChainCatch(i, settled, e) ==
    /\ IF reqs[i].op = "status"
       THEN statusCatch(i, settled, e) /\ UNCHANGED <<resultEl, jobsEl>>
       ELSE /\ IF reqs[i].op = "submit" THEN submitCatch(i, settled, e)
               ELSE loadJobsCatch(i, settled, e)
            /\ UNCHANGED statusVars
    /\ UNCHANGED uncaught

\* the promise of res.json() of request i is fulfilled with data
ChainThen(i, settled, data) ==
    /\ IF reqs[i].op = "status"
       THEN statusThen(i, settled, data) /\ UNCHANGED <<resultEl, jobsEl>>
       ELSE /\ IF reqs[i].op = "jobs" THEN loadJobsThen(i, settled, data)
               ELSE IF page = "jobs" THEN submitThen(i, settled, data)
               ELSE submitThenLib(i, settled, data)
            /\ UNCHANGED statusVars
    /\ UNCHANGED uncaught

\* request i with its promise chain finished: the response is dropped
Done(i) == [reqs EXCEPT ![i].phase = "done", ![i].status = 0]

\* fetch(...) rejects
fetchRejected(i, e) ==
    /\ page # "demo"
    /\ reqs[i].phase = "sent"
    /\ ChainCatch(i, Done(i), e)
    /\ UNCHANGED <<previewVars, resolveVars, probeVars, page, clicks>>

\* fetch(...) resolves with a response of status s; res.json() starts
fetchResponded(i, s) ==
    /\ page # "demo"
    /\ reqs[i].phase = "sent"
    /\ IF ThrowsUnlessOk(i) /\ ~ResOk(s)
       THEN ChainCatch(i, Done(i), NotOkError)
       ELSE /\ reqs' = [reqs EXCEPT ![i].phase = "body", ![i].status = s]
            /\ UNCHANGED <<statusVars, resultEl, jobsEl, uncaught>>
    /\ UNCHANGED <<previewVars, resolveVars, probeVars, page, clicks>>

\* res.json(): the body has been read as text and is parsed
jsonRead(i, text) ==
    /\ page # "demo"
    /\ reqs[i].phase = "body"
    /\ IF ParseOf(text).ok
       THEN ChainThen(i, Done(i), ParseOf(text).val)
       ELSE ChainCatch(i, Done(i), SyntaxErr)
    /\ UNCHANGED <<previewVars, resolveVars, probeVars, page, clicks>>

\* res.json(): reading the body fails
jsonFailed(i, e) ==
    /\ page # "demo"
    /\ reqs[i].phase = "body"
    /\ ChainCatch(i, Done(i), e)
    /\ UNCHANGED <<previewVars, resolveVars, probeVars, page, clicks>>

\* the page after its script has run: part_000 has called loadJobs() (line
\* 83); the script of lib/api.ts has no job list and has started its
\* status check
InitJobs ==
    /\ page \in {"jobs", "submit"}
    /\ clicks = 0
    /\ resultEl = <<>>
    /\ jobsEl = IF page = "jobs" THEN LoadingJobs ELSE NoJobsEl
    /\ reqs = IF page = "jobs" THEN <<loadJobsRequest(0)>> ELSE <<statusRequest>>
    /\ envBase = Unset
    /\ resolved = Unset
    /\ NoProbePage
    /\ NoPreview
    /\ NoStatusPage
    /\ uncaught = 0

\* frontend/script.js after it has run; HomePage after its effect has run
InitStatus ==
    /\ page \in {"status", "home"}
    /\ envBase \in (IF page = "home" THEN ProbeEnvs ELSE {Unset})
    /\ reqs = <<statusRequest>>
    /\ statusEl = NoStatusEl
    /\ homeStatus = (IF page = "home" THEN HomeLoading ELSE <<>>)
    /\ homeError = Unset
    /\ resolved = Unset
    /\ clicks = 0
    /\ resultEl = <<>>
    /\ jobsEl = NoJobsEl
    /\ NoProbePage
    /\ NoPreview
    /\ uncaught = 0

BodiesOf(r) ==
    IF page = "demo" THEN ProbeBodies
    ELSE IF r.op = "submit" THEN SubmitBodies
    ELSE IF r.op = "jobs" THEN JobsBodies
    ELSE StatusBodies

NextJobs ==
    \/ \E k \in ApiKeys, t \in JobTypes, p \in Payloads : submitJob(k, t, p)
    \/ \E i \in DOMAIN reqs, e \in Errors : fetchRejected(i, e)
    \/ \E i \in DOMAIN reqs, s \in JobStatuses : fetchResponded(i, s)
    \/ \E i \in DOMAIN reqs : \E text \in BodiesOf(reqs[i]) : jsonRead(i, text)
    \/ \E i \in DOMAIN reqs, e \in Errors : jsonFailed(i, e)

SpecJobs == InitJobs /\ [][NextJobs]_vars

(***************************************************************************)
(* Every page of the client: a browser page runs one of the scripts.       *)
(***************************************************************************)
InitApp == InitProbe \/ InitJobs \/ InitStatus

NextApp == NextProbe \/ NextJobs

SpecApp == InitApp /\ [][NextApp]_vars

\* the most requests a page issues within the bounds
ReqIds == 1..(2 * MaxSubmits + 2 * MaxProbes + 1)

\* the network settles a promise of request i: the response arrives or the
\* request is rejected, the body is read or reading it fails
Settle(i) ==
    /\ i \in DOMAIN reqs
    /\ \/ \E e \in Errors :
            \/ tryFetchRejected(i, e) \/ tryFetchTextFailed(i, e)
            \/ fetchRejected(i, e) \/ jsonFailed(i, e)
       \/ \E s \in Statuses : tryFetchResponded(i, s)
       \/ \E s \in JobStatuses : fetchResponded(i, s)
       \/ \E text \in BodiesOf(reqs[i]) :
            tryFetchText(i, text) \/ jsonRead(i, text)

\* every issued request eventually resolves or fails; nothing makes the
\* user click
SpecAppLive == SpecApp /\ \A i \in ReqIds : WF_vars(Settle(i))

(***************************************************************************)
(* Properties of the demo page's probe (SpecProbe).                        *)
(***************************************************************************)
IsHealth(r) == EndsWith(r.url, HealthPath)
IsRoot(r) == EndsWith(r.url, RootPath) /\ ~IsHealth(r)

HealthReq(p) == CHOOSE i \in ProbeReqs(p) : IsHealth(reqs[i])
RootReqs(p) == {i \in ProbeReqs(p) : IsRoot(reqs[i])}

\* the attempt has ended and was successful: the transport completed and the
\* status is in the success range
Successful(r) ==
    r.phase = "done" /\ ~r.neterr /\ r.status \in 200..299
Unsuccessful(r) ==
    r.phase = "done" /\ (r.neterr \/ r.status \notin 200..299)

\* the text tryFetch reports for the rejection value e
ErrorText(e) == IF e.set /\ Len(e.v) > 0 THEN e.v ELSE FetchFailed

\* C2: in every probe "/" is requested if and only if the "/health" attempt
\* was unsuccessful; and once "/health" has succeeded in the latest probe,
\* the result shown is that of "/health", with ok = true, and "/" was not
\* requested.
C2_StopsAtFirstSuccess ==
    \A p \in 1..NumProbes :
        /\ \E i \in ProbeReqs(p) : IsHealth(reqs[i])
        /\ (RootReqs(p) # {}) <=> Unsuccessful(reqs[HealthReq(p)])
        /\ (p = NumProbes /\ Successful(reqs[HealthReq(p)])) =>
              /\ RootReqs(p) = {}
              /\ result # NoResult
              /\ result.ok = TRUE
              /\ EndsWith(result.urlTried, HealthPath)
              /\ result.urlTried = reqs[HealthReq(p)].url
              /\ result.status = reqs[HealthReq(p)].status
              /\ ~loading

C2_Witness ==
    /\ NumProbes >= 1
    /\ Successful(reqs[HealthReq(NumProbes)])
    /\ result # NoResult
    /\ result.ok
    /\ IsHealth(reqs[1])

\* C3: when both candidates of the latest probe have failed, the result
\* shown is that of "/", the last candidate: its url, ok = false, and its
\* own status or error.
C3_AllFailReturnsLast ==
    \A p \in 1..NumProbes :
        (/\ p = NumProbes
         /\ Unsuccessful(reqs[HealthReq(p)])
         /\ \E f \in RootReqs(p) : Unsuccessful(reqs[f]))
        => \E f \in RootReqs(p) :
              /\ RootReqs(p) = {f}
              /\ result # NoResult
              /\ result.ok = FALSE
              /\ result.urlTried = reqs[f].url
              /\ EndsWith(result.urlTried, RootPath)
              /\ ~EndsWith(result.urlTried, HealthPath)
              /\ IF reqs[f].neterr
                 THEN /\ "error" \in DOMAIN result
                      /\ result.error = ErrorText(reqs[f].err)
                 ELSE /\ "status" \in DOMAIN result
                      /\ result.status = reqs[f].status

\* both candidates failed, each in its own way
C3_Witness ==
    /\ NumProbes >= 1
    /\ Len(reqs) >= 2
    /\ Unsuccessful(reqs[1]) /\ reqs[1].neterr
    /\ Unsuccessful(reqs[2]) /\ ~reqs[2].neterr
    /\ result # NoResult
    /\ ~result.ok

\* C4: a request of a probe is issued only when every earlier request of
\* that probe has ended; so no two requests of one probe are in flight.
C4_Sequential ==
    \A i, j \in DOMAIN reqs :
        (i < j /\ reqs[i].op = reqs[j].op) => reqs[i].phase = "done"

\* the second candidate's request is in flight
C4_Witness ==
    \E i, j \in DOMAIN reqs :
        i < j /\ reqs[i].op = reqs[j].op /\ InFlight(reqs[j])

ShapeOk(o, neterr) ==
    /\ o.ok => ("status" \in DOMAIN o /\ "error" \notin DOMAIN o)
    /\ neterr => /\ o.ok = FALSE
                 /\ "error" \in DOMAIN o
                 /\ Len(o.error) > 0
                 /\ "status" \notin DOMAIN o

\* C5: every result of a candidate attempt: ok = true implies status present
\* and error absent; a result of a transport failure has ok = false, error
\* present and status absent.
C5_ResultShape ==
    \A i \in DOMAIN reqs :
        reqs[i].phase = "done" => ShapeOk(reqs[i].outcome, reqs[i].neterr)

\* one attempt failed in the transport with an error that has no message,
\* another one succeeded
C5_Witness ==
    \E i, j \in DOMAIN reqs :
        /\ reqs[i].phase = "done" /\ reqs[i].neterr /\ ~reqs[i].err.set
        /\ reqs[j].phase = "done" /\ reqs[j].outcome.ok

(***************************************************************************)
(* Properties of the job page (SpecJobs).  A step of the page is named by  *)
(* the action it is and by what the action was given.                      *)
(***************************************************************************)
IsSubmit(r) == r.op = "submit"
IsJobs(r) == r.op = "jobs"
Posts == {i \in DOMAIN reqs : reqs[i].method = "POST"}

\* the step appends exactly one request
Issues(r) == reqs' = Append([i \in DOMAIN reqs |-> reqs'[i]], r) /\ Len(reqs') = Len(reqs) + 1
\* the step appends no request
IssuesNothing == Len(reqs') = Len(reqs)

\* C1: a submit whose payload text does not parse as JSON issues no request
\* and shows "Invalid JSON payload"; and a POST is only ever issued by a
\* submit whose payload text parses.
C1_InvalidPayloadNeverSent ==
    [][/\ clicks' # clicks =>
            \A k \in ApiKeys, t \in JobTypes, p \in Payloads :
                (~ParseOf(p).ok /\ submitJob(k, t, p)) =>
                    (reqs' = reqs /\ resultEl' = InvalidPayload)
       /\ (\E i \in DOMAIN reqs' : i > Len(reqs) /\ reqs'[i].method = "POST") =>
            \E k \in ApiKeys, t \in JobTypes, p \in Payloads :
                ParseOf(p).ok /\ submitJob(k, t, p)]_vars

\* a submit of an unparseable payload has just returned
C1_Witness ==
    clicks = 1 /\ resultEl = InvalidPayload /\ Posts = {}

\* the request for the job list that the handler of request i issues
RefreshOf(i) == loadJobsRequest(i)

ShowsParsed(text) ==
    /\ ParseOf(resultEl') = ParseOf(text)
    /\ resultEl' = Stringify(ParseOf(text).val, 2, 0)

\* request i of operation op ends in this step after its body was awaited
\* (phase "body") or while the response was awaited (phase "sent")
Ends(i, op, phase) ==
    reqs[i].op = op /\ reqs[i].phase = phase /\ reqs'[i].phase = "done"

ErrorTexts == {e.v : e \in {x \in Errors \cup {SyntaxErr, TypeErr} : x.set}}

ShowsGenericFailure ==
    resultEl' = SubmissionFailed /\ resultEl' \notin ErrorTexts

\* C7: when the transport of a submission fails or the response body is not
\* JSON, "Submission failed" is shown, whatever the failure, and never the
\* text of the error.
C7_GenericFailure ==
    [][\A i \in DOMAIN reqs :
          /\ Ends(i, "submit", "sent") =>
                \A e \in Errors : fetchRejected(i, e) => ShowsGenericFailure
          /\ Ends(i, "submit", "body") =>
                /\ \A e \in Errors : jsonFailed(i, e) => ShowsGenericFailure
                /\ \A text \in SubmitBodies :
                      (~ParseOf(text).ok /\ jsonRead(i, text)) =>
                          ShowsGenericFailure]_vars

C7_Witness ==
    /\ resultEl = SubmissionFailed
    /\ \E i \in DOMAIN reqs : IsSubmit(reqs[i]) /\ reqs[i].phase = "done"

EmptyArray == [ok |-> TRUE, val |-> JArr(<<>>)]

ShowsNoJobs == jobsEl' = NoJobsFound /\ jobsEl' # FailedToLoad
ShowsFailedToLoad == jobsEl' = FailedToLoad /\ jobsEl' # NoJobsFound

\* C8: an empty array is shown as "no jobs", a failed fetch (rejected
\* request, unreadable body, body that is not JSON) as "failed to load", and
\* the two differ.
C8_EmptyIsNotFailure ==
    [][\A i \in DOMAIN reqs :
          /\ Ends(i, "jobs", "sent") =>
                \A e \in Errors : fetchRejected(i, e) => ShowsFailedToLoad
          /\ Ends(i, "jobs", "body") =>
                /\ \A e \in Errors : jsonFailed(i, e) => ShowsFailedToLoad
                /\ \A text \in JobsBodies :
                      /\ (ParseOf(text) = EmptyArray /\ jsonRead(i, text)) =>
                            ShowsNoJobs
                      /\ (~ParseOf(text).ok /\ jsonRead(i, text)) =>
                            ShowsFailedToLoad]_vars

C8_Witness ==
    /\ jobsEl = NoJobsFound
    /\ \E i \in DOMAIN reqs : IsJobs(reqs[i]) /\ reqs[i].phase = "done"

\* the rows on display are the jobs of the array, one each, in its order
RowsFollow(items) ==
    /\ jobsEl'.view = "list"
    /\ Len(jobsEl'.rows) = Len(items)
    /\ \A k \in DOMAIN items :
          /\ jobsEl'.rows[k].id = DisplayText(GetProp(items[k], IdKey))
          /\ jobsEl'.rows[k].job_type = DisplayText(GetProp(items[k], JobTypeKey))
          /\ jobsEl'.rows[k].status = DisplayText(GetProp(items[k], StatusKey))
          /\ jobsEl'.rows[k].created_at = DisplayText(GetProp(items[k], CreatedAtKey))

NonEmptyArray(text) ==
    /\ ParseOf(text).ok
    /\ ParseOf(text).val.kind = "arr"
    /\ ParseOf(text).val.items # <<>>

NoNullItem(text) ==
    \A k \in DOMAIN ParseOf(text).val.items :
        ParseOf(text).val.items[k].kind # "null"

\* C9 as claimed: every non-empty array is rendered one record per element,
\* in the order received.
C9_AsClaimed ==
    [][\A i \in DOMAIN reqs : Ends(i, "jobs", "body") =>
          \A text \in JobsBodies :
              (NonEmptyArray(text) /\ jsonRead(i, text)) =>
                  RowsFollow(ParseOf(text).val.items)]_vars

\* C9: every non-empty array none of whose elements is null is rendered one
\* record per element, in the order received.
C9_RowsInOrder ==
    [][\A i \in DOMAIN reqs : Ends(i, "jobs", "body") =>
          \A text \in JobsBodies :
              (NonEmptyArray(text) /\ NoNullItem(text) /\ jsonRead(i, text)) =>
                  RowsFollow(ParseOf(text).val.items)]_vars

\* the list of three jobs, ids 2, 1, 2, is on display as received
C9_Witness ==
    /\ jobsEl.view = "list"
    /\ Len(jobsEl.rows) = 3
    /\ jobsEl.rows[1].id = <<"2">> /\ jobsEl.rows[2].id = <<"1">>
    /\ jobsEl.rows[3].id = <<"2">>

(***************************************************************************)
(* Properties of endpoint resolution (SpecResolve).                        *)
(***************************************************************************)
AllWs(t) == \A k \in DOMAIN t : IsWs(t[k])

\* r is t without the whitespace around it and without the slashes that end
\* what is left
TrimmedAndStripped(t, r) ==
    \E i, j \in DOMAIN t :
        /\ i <= j
        /\ ~IsWs(t[i]) /\ ~IsWs(t[j])
        /\ \A k \in 1..(i - 1) : IsWs(t[k])
        /\ \A k \in (j + 1)..Len(t) : IsWs(t[k])
        /\ \E m \in (i - 1)..j :
              /\ r = SubSeq(t, i, m)
              /\ \A k \in (m + 1)..j : t[k] = "/"
              /\ m >= i => t[m] # "/"

\* C10: the resolved base is the default host when the configured value is
\* absent, empty or only whitespace; otherwise it is the trimmed value with
\* all trailing slashes stripped.
C10_Resolution ==
    resolved.set =>
        IF ~envBase.set \/ AllWs(envBase.v)
        THEN resolved.v = DefaultHost
        ELSE TrimmedAndStripped(envBase.v, resolved.v)

C10_Witness ==
    /\ resolved.set
    /\ envBase = Some(<<" ", "a", "/", "/">>)
    /\ resolved.v = <<"a">>

\* C11 as claimed: resolving the output of a resolution again yields that
\* same output, for every configured value.
C11_Idempotent ==
    resolved.set => apiBase(Some(resolved.v)) = resolved.v

(***************************************************************************)
(* Properties of safePreview (SpecPreview).                                *)
(***************************************************************************)
\* r is t without the white space around it
TrimmedOf(t, r) ==
    IF AllWs(t) THEN r = <<>>
    ELSE \E i, j \in DOMAIN t :
            /\ i <= j
            /\ ~IsWs(t[i]) /\ ~IsWs(t[j])
            /\ \A k \in 1..(i - 1) : IsWs(t[k])
            /\ \A k \in (j + 1)..Len(t) : IsWs(t[k])
            /\ r = SubSeq(t, i, j)

\* out is the preview of the trimmed text r cut at max: r itself when it has
\* at most max characters, else its first max characters and one ellipsis
PreviewOf(r, max, out) ==
    IF Len(r) <= max THEN out = r
    ELSE /\ Len(out) = max + 1
         /\ \A k \in 1..max : out[k] = r[k]
         /\ out[max + 1] = Ellipsis

\* C12 as claimed: for every text and every max, negative ones included, the
\* preview is the trimmed text when that has at most max characters, else
\* its first max characters and one ellipsis, max + 1 characters in all.
C12_AsClaimed ==
    previewOut.set =>
        \E r \in PreviewTexts :
            /\ TrimmedOf(previewText, r)
            /\ PreviewOf(r, previewMax, previewOut.v)

\* C12: for every text and every max >= 0 the preview is the trimmed text
\* when that has at most max characters, else its first max characters and
\* one ellipsis, max + 1 characters in all.
C12_Preview ==
    (previewOut.set /\ previewMax >= 0) =>
        \E r \in PreviewTexts :
            /\ TrimmedOf(previewText, r)
            /\ PreviewOf(r, previewMax, previewOut.v)

\* " abb" cut at 2 gives "ab" and the ellipsis
C12_Witness ==
    /\ previewText = <<" ", "a", "b", "b">>
    /\ previewMax = 2
    /\ previewOut = Some(<<"a", "b", Ellipsis>>)

(***************************************************************************)
(* Properties of concurrent submissions (SpecJobs).                        *)
(***************************************************************************)
Submits == {i \in DOMAIN reqs : reqs[i].op = "submit"}

\* what the handlers of a submission write for a response body
OutcomeOf(text) ==
    IF ParseOf(text).ok THEN Stringify(ParseOf(text).val, 2, 0)
    ELSE SubmissionFailed

\* C13: with two or more submissions issued, whichever of them resolves, in
\* whatever order, writes its own outcome to the result display at that
\* step, be it the submission fired last or an earlier one; and the display
\* then changes only when another submission resolves or submit is clicked.
\* So once all have resolved the display shows the outcome of the one that
\* resolved last.
C13_LastResolvedWins ==
    [][/\ \A i \in DOMAIN reqs :
            (/\ page \in {"jobs", "submit"}
             /\ reqs[i].op = "submit"
             /\ InFlight(reqs[i]) /\ reqs'[i].phase = "done"
             /\ Cardinality(Submits) >= 2) =>
                /\ \A e \in Errors :
                      (fetchRejected(i, e) \/ jsonFailed(i, e)) =>
                          resultEl' = SubmissionFailed
                /\ \A text \in SubmitBodies :
                      jsonRead(i, text) => resultEl' = OutcomeOf(text)
       /\ (/\ clicks' = clicks
           /\ \A i \in Submits : reqs'[i].phase = "done" => reqs[i].phase = "done")
          => resultEl' = resultEl]_vars

\* both submissions have resolved, the one fired last first: its refresh of
\* the job list was issued before the refresh of the one fired first
C13_Witness ==
    /\ page = "jobs"
    /\ \E a, b \in Submits, ra, rb \in DOMAIN reqs :
          /\ reqs[a].by = 1 /\ reqs[b].by = 2
          /\ reqs[a].phase = "done" /\ reqs[b].phase = "done"
          /\ reqs[ra].op = "jobs" /\ reqs[ra].by = a
          /\ reqs[rb].op = "jobs" /\ reqs[rb].by = b
          /\ rb < ra
    /\ ParseOf(resultEl).ok

(***************************************************************************)
(* Properties of all pages (SpecApp).                                      *)
(***************************************************************************)
\* requests a and b are the same request of the same operation: the same
\* submit click, the same call of loadJobs, the same candidate of the same
\* probe
SameRequest(a, b) ==
    /\ a.op = b.op /\ a.by = b.by
    /\ a.method = b.method /\ a.url = b.url

PhaseRank(ph) == CASE ph = "sent" -> 1 [] ph = "body" -> 2 [] ph = "done" -> 3

\* C14: no request is sent twice: a step issues at most one request, and
\* never one that was issued before for the same operation (the same submit
\* click, the same call of loadJobs, the same candidate path of the same
\* probe), nor one to the url of a request that ends in that step; a
\* request only moves on (sent, body read, done), and one that is done, with
\* the failure or result it ended in, never changes again.
C14_NoRetry ==
    [][/\ Len(reqs') \in {Len(reqs), Len(reqs) + 1}
       /\ \A i \in DOMAIN reqs :
            /\ PhaseRank(reqs'[i].phase) >= PhaseRank(reqs[i].phase)
            /\ reqs[i].phase = "done" => reqs'[i] = reqs[i]
            /\ SameRequest(reqs'[i], reqs[i])
       /\ Len(reqs') > Len(reqs) =>
            \A i \in DOMAIN reqs :
                /\ ~SameRequest(reqs'[Len(reqs')], reqs[i])
                /\ (reqs[i].phase # "done" /\ reqs'[i].phase = "done") =>
                      reqs'[Len(reqs')].url # reqs[i].url]_vars

\* on the job page the first load of the list and a submission have both
\* failed, and the two requests issued for them are all there is
C14_Witness ==
    /\ page = "jobs"
    /\ clicks = 1
    /\ resultEl = SubmissionFailed
    /\ jobsEl = FailedToLoad
    /\ Len(reqs) = 2
    /\ \A i \in DOMAIN reqs : reqs[i].phase = "done"

\* what the catch of request i's operation makes of a failure: the display
\* string of the operation
Converted(i) ==
    CASE reqs[i].op = "submit" -> resultEl' = SubmissionFailed
      [] reqs[i].op = "jobs" -> jobsEl' = FailedToLoad
      [] reqs[i].op = "status" ->
            IF page = "home" THEN homeError' = Some(BackendFailed)
            ELSE /\ statusEl'.text = ApiStatus \o Offline
                 /\ "fail" \in statusEl'.classes

\* a result object flagged as failed
Flagged(o) ==
    /\ o.ok = FALSE
    /\ "error" \in DOMAIN o /\ Len(o.error) > 0
    /\ "status" \notin DOMAIN o

\* C15: no rejection ever reaches no handler, and every step in which a
\* request fails (the request is rejected, the body cannot be read or is not
\* JSON, the status is not a success where apiGet and script.js throw on it)
\* ends the request with the failure converted by the operation that issued
\* it: "Submission failed", "Failed to load jobs.", "API Status: OFFLINE",
\* HomePage's error text, or in the probe a result object with ok = false
\* and the error text, which runDemo shows or follows with the fallback.
C15_ErrorsCaught ==
    [][/\ uncaught' = 0
       /\ \A i \in DOMAIN reqs :
            (InFlight(reqs[i]) /\ reqs'[i].phase = "done") =>
                IF page = "demo"
                THEN \A e \in Errors :
                        (tryFetchRejected(i, e) \/ tryFetchTextFailed(i, e)) =>
                            /\ Flagged(reqs'[i].outcome)
                            /\ reqs'[i].outcome.error = ErrorText(e)
                            /\ \/ result' = reqs'[i].outcome /\ ~loading'
                               \/ /\ IsHealth(reqs[i])
                                  /\ Len(reqs') = Len(reqs) + 1
                                  /\ loading'
                ELSE /\ \A e \in Errors :
                          (fetchRejected(i, e) \/ jsonFailed(i, e)) => Converted(i)
                     /\ \A s \in JobStatuses :
                          (/\ ThrowsUnlessOk(i) /\ ~ResOk(s)
                           /\ fetchResponded(i, s)) => Converted(i)
                     /\ \A text \in BodiesOf(reqs[i]) :
                          (~ParseOf(text).ok /\ jsonRead(i, text)) => Converted(i)]_vars

\* HomePage shows its error text: apiGet's promise was rejected
C15_Witness ==
    /\ page = "home"
    /\ homeError = Some(BackendFailed)
    /\ homeStatus = HomeLoading
    /\ reqs[1].phase = "done"
    /\ uncaught = 0

\* a request of operation kind `which` ends in this step
RequestEnds(which) ==
    \E i \in DOMAIN reqs :
        /\ InFlight(reqs[i]) /\ reqs'[i].phase = "done"
        /\ which = "probe" \/ reqs[i].op = which

\* a click on submit with a payload that is not JSON
InvalidClick ==
    clicks' = clicks + 1 /\ resultEl' = InvalidPayload /\ reqs' = reqs

\* C16 as claimed: the pending state of an operation (loading = true,
\* "Submitting...", "Loading jobs...") is left only in a step in which a
\* request completes, and the probe stays loading while a request of it is
\* unresolved.
C16_AsClaimed ==
    [][IF page = "demo"
       THEN /\ (loading /\ ~loading') => RequestEnds("probe")
            /\ (\E i \in DOMAIN reqs' : InFlight(reqs'[i])) => loading'
       ELSE /\ (resultEl = Submitting /\ resultEl' # Submitting) =>
                  RequestEnds("submit")
            /\ (jobsEl = LoadingJobs /\ jobsEl' # LoadingJobs) =>
                  RequestEnds("jobs")]_vars

\* C16: there is no timeout and no cancellation.  The probe stays loading
\* while a request of it is unresolved and stops loading only in a step in
\* which a request of it completes; "Loading jobs..." is left only when a
\* GET /jobs completes; "Submitting..." is left only when a POST /submit-job
\* completes or when submit is clicked again with a payload that is not
\* JSON, which shows "Invalid JSON payload" while the earlier request is
\* still unresolved.
C16_PendingUntilCompletion ==
    [][IF page = "demo"
       THEN /\ (loading /\ ~loading') => RequestEnds("probe")
            /\ (\E i \in DOMAIN reqs' : InFlight(reqs'[i])) => loading'
       ELSE /\ (resultEl = Submitting /\ resultEl' # Submitting) =>
                  (RequestEnds("submit") \/ InvalidClick)
            /\ (jobsEl = LoadingJobs /\ jobsEl' # LoadingJobs) =>
                  RequestEnds("jobs")]_vars

\* "Invalid JSON payload" is on display while the request of the earlier
\* submission and a load of the job list are unresolved
C16_Witness ==
    /\ page = "jobs"
    /\ clicks = 2
    /\ resultEl = InvalidPayload
    /\ jobsEl = LoadingJobs
    /\ \E i \in DOMAIN reqs : reqs[i].op = "submit" /\ InFlight(reqs[i])
    /\ \E i \in DOMAIN reqs : reqs[i].op = "jobs" /\ InFlight(reqs[i])

(***************************************************************************)
(* Properties of the demo page's loading state (SpecProbe).                *)
(***************************************************************************)
Pending == {i \in DOMAIN reqs : InFlight(reqs[i])}

LeavesJobList ==
    /\ Len(reqs') = Len(reqs)
    /\ \A j \in DOMAIN reqs' : reqs'[j].op = "jobs" => reqs'[j] = reqs[j]
    /\ jobsEl' = jobsEl

\* C18: a submit click with a payload that is not JSON, and every step in
\* which a submission fails (request rejected, body unreadable, body not
\* JSON), issues no GET /jobs, or any request, and leaves the job-list
\* display unchanged.
C18_NoRefreshOnFailure ==
    [][/\ clicks' # clicks =>
            \A k \in ApiKeys, t \in JobTypes, p \in Payloads :
                (~ParseOf(p).ok /\ submitJob(k, t, p)) =>
                    (resultEl' = InvalidPayload /\ LeavesJobList)
       /\ \A i \in DOMAIN reqs :
            /\ Ends(i, "submit", "sent") =>
                  \A e \in Errors : fetchRejected(i, e) =>
                      (resultEl' = SubmissionFailed /\ LeavesJobList)
            /\ Ends(i, "submit", "body") =>
                  /\ \A e \in Errors : jsonFailed(i, e) =>
                        (resultEl' = SubmissionFailed /\ LeavesJobList)
                  /\ \A text \in SubmitBodies :
                        (~ParseOf(text).ok /\ jsonRead(i, text)) =>
                            (resultEl' = SubmissionFailed /\ LeavesJobList)]_vars

\* on the page with the job list a submission has failed while the list is
\* on display: the list is still there and the only GET /jobs is the one of
\* the page load
C18_Witness ==
    /\ page = "jobs"
    /\ resultEl = SubmissionFailed
    /\ jobsEl.view = "list"
    /\ \E i \in DOMAIN reqs : reqs[i].op = "submit" /\ reqs[i].phase = "done"
    /\ Cardinality({i \in DOMAIN reqs : reqs[i].op = "jobs"}) = 1

\* C19 as claimed: "No jobs found" is shown only when GET /jobs completed
\* and its body is an empty JSON array; a body that is any other JSON value,
\* a body that is not JSON, an unreadable body and a rejected request never
\* end in "No jobs found".
C19_NoJobsOnlyForEmptyArray ==
    [][\A i \in DOMAIN reqs :
          /\ Ends(i, "jobs", "sent") =>
                \A e \in Errors : fetchRejected(i, e) => jobsEl' # NoJobsFound
          /\ Ends(i, "jobs", "body") =>
                /\ \A e \in Errors : jsonFailed(i, e) => jobsEl' # NoJobsFound
                /\ \A text \in JobsBodies :
                      (ParseOf(text) # EmptyArray /\ jsonRead(i, text)) =>
                          jobsEl' # NoJobsFound]_vars

(***************************************************************************)
(* Termination of the operations (SpecAppLive).                            *)
(***************************************************************************)
\* the display request i's operation has written when it ended: the parsed
\* response or "Submission failed"; the job list, "no jobs" or "failed to
\* load"; the status line or HomePage's status or error
TerminalDisplay(i) ==
    IF page = "demo" THEN reqs[i].outcome # JNull
    ELSE CASE reqs[i].op = "submit" ->
                  resultEl = SubmissionFailed \/ ParseOf(resultEl).ok
           [] reqs[i].op = "jobs" -> jobsEl.view \in {"list", "empty", "failed"}
           [] reqs[i].op = "status" ->
                  IF page = "home"
                  THEN homeError # Unset \/ homeStatus # HomeLoading
                  ELSE statusEl.classes # {}

\* C20: if every issued request eventually resolves or fails, a probe that
\* is loading eventually ends with loading = false and a result, and every
\* request issued by a submission, by loadJobs, by a probe or by a status
\* check is eventually done with the terminal display of its operation
\* written.
C20_Terminates ==
    /\ loading ~> (~loading /\ result # NoResult)
    /\ \A i \in ReqIds :
          (i \in DOMAIN reqs /\ InFlight(reqs[i])) ~>
              (/\ i \in DOMAIN reqs
               /\ reqs[i].phase = "done"
               /\ TerminalDisplay(i))

\* the job page at rest after a submission: the response is on display,
\* the refreshed list is on display, no request is unresolved
C20_Witness ==
    /\ page = "jobs"
    /\ clicks = 1
    /\ Len(reqs) = 3
    /\ \A i \in DOMAIN reqs : reqs[i].phase = "done"
    /\ ParseOf(resultEl).ok
    /\ jobsEl.view = "list"

====
